---- MODULE Spec2Model ----
(***************************************************************************)
(* Blueprint-to-scene translation and door interaction of the 3d_bp        *)
(* viewer.  Three programs of the repository are modelled:                  *)
(*   - src/main.js (walls with offset openings, hinged door pivots that     *)
(*     are eased toward a target angle every frame, click picking),         *)
(*   - the pure helper pointAlongWall of src/main.js on its own,            *)
(*   - src/unnamed/part_001 (room-level doors registered in                 *)
(*     clickableObjects).                                                   *)
(*                                                                         *)
(* Units.  Lengths are integers in hundredths of a world unit (5 -> 500,    *)
(* 0.2 -> 20, 0.05 -> 5).  Angles are integers in 1/125000 of a degree, so  *)
(* that Math.PI / 2 is QuarterTurn = 90 * 125000 and the first lerp steps   *)
(* from a multiple of a quarter turn are exact; later steps are rounded to  *)
(* the nearest unit.  A number that JavaScript computes as NaN is carried   *)
(* by the nan flag of the record that holds it.  Walls are axis-aligned or  *)
(* of zero length, for which atan2, cos and sin are exact table values.     *)
(***************************************************************************)
EXTENDS Integers, Sequences, FiniteSets, TLC

VARIABLES pc, bp, roomIdx, scene, doorPivots, frames, clicks, event,
          clickableObjects, paw

vars == <<pc, bp, roomIdx, scene, doorPivots, frames, clicks, event,
          clickableObjects, paw>>

\* ------------------------------------------------------------------ bounds
\* Runs of animate modelled (the animation loop itself never ends): for every
\* blueprint, and for the long swing of the one door of the example blueprint.
MaxTicks == 4
MaxSwingTicks == 13
\* Click events modelled.
MaxClicks == 2
\* Objects a click ray passes through, nearest first.
MaxHits == 2

\* ------------------------------------------------------- program constants
QuarterTurn == 90 * 125000
\* lerp factor 0.18 = LerpNum / LerpDen
LerpNum == 9
LerpDen == 50
\* cavity depth margin 0.05
HoleMargin == 5
\* default sill of a window, 1
WindowSill == 100
\* Math.max(0.02, thickness * 0.9)
MinDoorDepth == 2

\* --------------------------------------------------------------- arithmetic
Abs(n) == IF n < 0 THEN -n ELSE n

Max(a, b) == IF a >= b THEN a ELSE b

\* n / d rounded to the nearest unit, d > 0
RoundDiv(n, d) ==
  IF n >= 0 THEN (2 * n + d) \div (2 * d) ELSE -((2 * (-n) + d) \div (2 * d))

\* Math.sqrt, exact on the squares the model meets (the floor otherwise):
\* the root lies in lo..hi
RECURSIVE SqrtIn(_, _, _)
SqrtIn(n, lo, hi) ==
  IF lo >= hi THEN lo
  ELSE LET mid == (lo + hi + 1) \div 2
       IN  IF mid * mid <= n THEN SqrtIn(n, mid, hi) ELSE SqrtIn(n, lo, mid - 1)

Sqrt(n) == SqrtIn(n, 0, IF n < 46340 THEN n ELSE 46340)

\* Math.atan2(dz, dx) for an axis-aligned or zero vector
Atan2(dz, dx) ==
  CASE dz = 0 /\ dx >= 0 -> 0
    [] dz = 0 /\ dx < 0 -> 2 * QuarterTurn
    [] dx = 0 /\ dz > 0 -> QuarterTurn
    [] dx = 0 /\ dz < 0 -> -QuarterTurn

\* Math.cos and Math.sin at the angles Atan2 returns
Cos(a) ==
  CASE a = 0 -> 1
    [] a = 2 * QuarterTurn -> -1
    [] a = QuarterTurn \/ a = -QuarterTurn -> 0

Sin(a) ==
  CASE a = QuarterTurn -> 1
    [] a = -QuarterTurn -> -1
    [] a = 0 \/ a = 2 * QuarterTurn -> 0

\* THREE.MathUtils.lerp(x, y, 0.18)
Lerp_Overshoot(x, y) == x + RoundDiv((LerpDen + LerpNum) * (y - x), LerpDen)

Lerp(x, y) == x + RoundDiv(LerpNum * (y - x), LerpDen)

\* ------------------------------------------------------------- pointAlongWall
\* from[1] is the x and from[2] the z coordinate.  A zero-length segment gives
\* 0 / 0 = NaN in both coordinates, whatever the offset.
pointAlongWall(from, to, offset) ==
  LET dx == to[1] - from[1]
      dz == to[2] - from[2]
      length == Sqrt(dx * dx + dz * dz)
  IN  IF length = 0
      THEN [nan |-> TRUE, x |-> 0, z |-> 0]
      ELSE [nan |-> FALSE,
            x |-> from[1] + RoundDiv(dx * offset, length),
            z |-> from[2] + RoundDiv(dz * offset, length)]

\* ------------------------------------------------------------ blueprints
\* An opening of a wall (main.js): offset along the wall, optional sill and hinge.
Door(width, height, offset, hinge) ==
  [type |-> "door", width |-> width, height |-> height, offset |-> offset,
   hasSill |-> FALSE, sill |-> 0, hinge |-> hinge]

Window(width, height, offset) ==
  [type |-> "window", width |-> width, height |-> height, offset |-> offset,
   hasSill |-> FALSE, sill |-> 0, hinge |-> "none"]

Wall(from, to, openings) == [from |-> from, to |-> to, openings |-> openings]

\* One wall from [0,0] to [5,0], height 3, thickness 0.2, one door
\* width 1, height 2, offset 2, hinge absent.
BpExample ==
  [wallHeight |-> 300, wallThickness |-> 20,
   rooms |-> << [walls |-> << Wall(<<0, 0>>, <<500, 0>>,
                                   << Door(100, 200, 200, "none") >>) >>,
                 floor |-> TRUE] >>]

\* Two walls, a right-hinged door and a window on the first, a door with a
\* raised sill on the second.
BpHouse ==
  [wallHeight |-> 300, wallThickness |-> 20,
   rooms |-> << [walls |-> << Wall(<<0, 0>>, <<0, 500>>,
                                   << Door(100, 200, 200, "right"),
                                      Window(100, 100, 400) >>),
                              Wall(<<500, 0>>, <<0, 0>>,
                                   << [Door(80, 200, 300, "left")
                                         EXCEPT !.hasSill = TRUE, !.sill = 10] >>) >>,
                 floor |-> FALSE] >>]

\* Two rooms; the second wall of the first room has from = to and carries a door.
BpZeroWall ==
  [wallHeight |-> 300, wallThickness |-> 20,
   rooms |-> << [walls |-> << Wall(<<0, 0>>, <<500, 0>>, << >>),
                              Wall(<<200, 200>>, <<200, 200>>,
                                   << Door(100, 200, 0, "none") >>),
                              Wall(<<500, 0>>, <<500, 400>>, << >>) >>,
                 floor |-> FALSE],
                [walls |-> << Wall(<<0, 400>>, <<0, 0>>, << >>) >>,
                 floor |-> FALSE] >>]

\* Wall height 0 for every wall.
BpFlat ==
  [wallHeight |-> 0, wallThickness |-> 20,
   rooms |-> << [walls |-> << Wall(<<0, 0>>, <<500, 0>>, << >>),
                              Wall(<<0, 500>>, <<0, 0>>,
                                   << Door(100, 200, 200, "right") >>) >>,
                 floor |-> FALSE] >>]

Blueprints == {BpExample, BpHouse, BpZeroWall, BpFlat}

\* What the properties below call a valid wall (the code itself checks nothing):
\* from # to, height and thickness > 0, every opening of positive width and height.
ValidWall(b, w) ==
  /\ w.from # w.to
  /\ b.wallHeight > 0
  /\ b.wallThickness > 0
  /\ \A k \in DOMAIN w.openings :
       w.openings[k].width > 0 /\ w.openings[k].height > 0

\* ------------------------------------------------------- scene construction
Half(n) == RoundDiv(n, 2)

Pos(nan, x, y, z) ==
  IF nan THEN [nan |-> TRUE, x |-> 0, y |-> y, z |-> 0]
         ELSE [nan |-> FALSE, x |-> x, y |-> y, z |-> z]

\* sill: explicit, else 1 for a window and 0 for a door
SillOf(op) ==
  IF op.hasSill THEN op.sill ELSE IF op.type = "window" THEN WindowSill ELSE 0

\* wall.rotation.y = -angle
WallRotationY(angle) == -angle

\* baseRotation = -angle
BaseRotation(angle) == -angle

\* swing: -90 degrees for hinge 'right', +90 degrees otherwise
Swing_AlwaysLeft(hinge) == QuarterTurn

Swing(hinge) == IF hinge = "right" THEN -QuarterTurn ELSE QuarterTurn

\* the cavity cut for an opening
Hole(op, pos, thickness, angle) ==
  [position |-> Pos(pos.nan, pos.x, SillOf(op) + Half(op.height), pos.z),
   size |-> <<op.width, op.height, thickness + HoleMargin>>,
   rotationY |-> -angle]

\* hinge world position: the hole centre minus half the width along the wall
HingePosition(op, pos, angle) ==
  Pos(pos.nan,
      pos.x - Cos(angle) * Half(op.width),
      SillOf(op) + Half(op.height),
      pos.z - Sin(angle) * Half(op.width))

\* the door panel, local to its pivot
DoorMesh(op, thickness) ==
  LET doorDepth == Max(MinDoorDepth, RoundDiv(thickness * 9, 10))
      inset == Half(thickness - doorDepth)
  IN  [kind |-> "panel", name |-> "",
       size |-> <<op.width, op.height, doorDepth>>,
       position |-> Pos(FALSE, Half(op.width), 0, -inset)]

DoorPivot(of, op, pos, angle, thickness) ==
  [kind |-> "pivot", name |-> "doorPivot", of |-> of,
   position |-> HingePosition(op, pos, angle),
   rotationY |-> BaseRotation(angle),
   userData |-> [closedAngle |-> BaseRotation(angle),
                 openAngle |-> BaseRotation(angle) + Swing(op.hinge),
                 targetAngle |-> BaseRotation(angle),
                 isOpen |-> FALSE],
   child |-> DoorMesh(op, thickness)]

WindowMesh(of, op, pos, angle) ==
  [kind |-> "window", name |-> "", of |-> of,
   position |-> Pos(pos.nan, pos.x, SillOf(op) + Half(op.height), pos.z),
   rotationY |-> -angle]

\* createWallWithOpenings: what it adds to the scene itself (door pivots and
\* windows, in the order of the openings) and the wall mesh it returns.  The
\* field of names the room, wall and opening an object was made for.
createWallWithOpenings(r, w, from, to, height, thickness, openings) ==
  LET dx == to[1] - from[1]
      dz == to[2] - from[2]
      length == Sqrt(dx * dx + dz * dz)
      angle == Atan2(dz, dx)
      pos(k) == pointAlongWall(from, to, openings[k].offset)
      visible(k) ==
        IF openings[k].type = "door"
        THEN << DoorPivot(<<r, w, k>>, openings[k], pos(k), angle, thickness) >>
        ELSE IF openings[k].type = "window"
        THEN << WindowMesh(<<r, w, k>>, openings[k], pos(k), angle) >>
        ELSE << >>
      added[k \in 0..Len(openings)] ==
        IF k = 0 THEN << >> ELSE added[k - 1] \o visible(k)
  IN  [added |-> added[Len(openings)],
       mesh |-> [kind |-> "wall", name |-> "", of |-> <<r, w>>,
                 position |-> Pos(FALSE, Half(from[1] + to[1]), Half(height),
                                  Half(from[2] + to[2])),
                 rotationY |-> WallRotationY(angle),
                 size |-> <<length, height, thickness>>,
                 cavities |-> [k \in DOMAIN openings |->
                                 Hole(openings[k], pos(k), thickness, angle)]]]

createFloor(r) == [kind |-> "floor", name |-> "", of |-> <<r>>]

\* One room of buildFromBlueprint: every wall in order (its openings' objects,
\* then the wall mesh), then the floor if the room has one.
RoomObjects(b, r) ==
  LET room == b.rooms[r]
      built(w) == createWallWithOpenings(r, w, room.walls[w].from, room.walls[w].to,
                                         b.wallHeight, b.wallThickness,
                                         room.walls[w].openings)
      walls[w \in 0..Len(room.walls)] ==
        IF w = 0 THEN << >>
        ELSE walls[w - 1] \o built(w).added \o << built(w).mesh >>
  IN  walls[Len(room.walls)] \o (IF room.floor THEN << createFloor(r) >> ELSE << >>)

\* doorPivots.push, in the order the pivots enter the scene: positions lo+1.. of s
RECURSIVE PivotsFrom(_, _)
PivotsFrom(s, lo) ==
  IF lo >= Len(s) THEN << >>
  ELSE (IF s[lo + 1].kind = "pivot" THEN << lo + 1 >> ELSE << >>) \o PivotsFrom(s, lo + 1)

\* ------------------------------------------------------- animation (main.js)
\* The body of animate: every pivot of doorPivots is eased toward its target.
animate(s, dps) ==
  [i \in DOMAIN s |->
     IF \E j \in DOMAIN dps : dps[j] = i
     THEN [s[i] EXCEPT !.rotationY = Lerp(s[i].rotationY, s[i].userData.targetAngle)]
     ELSE s[i]]

\* A requestAnimationFrame callback runs only between tasks: after init's call
\* of animate has scheduled one and the load callback has returned.
TickReady_DuringBuild == pc \in {"building", "running"} /\ frames >= 1

TickReady == pc = "running" /\ frames >= 1

\* ---------------------------------------------------------- picking (main.js)
\* A scene node is the path of child positions from the scene: << >> is the
\* scene, <<i>> its i-th child, <<i, 1>> the panel of pivot i.  Null stands for
\* the parent of the scene.
Null == << -1 >>

Parent(obj) == IF obj = << >> THEN Null ELSE SubSeq(obj, 1, Len(obj) - 1)

NameOf(s, obj) ==
  IF obj = << >> THEN ""
  ELSE IF Len(obj) = 1 THEN s[obj[1]].name ELSE s[obj[1]].child.name

\* What a ray can hit: the meshes of the scene (lights and groups have no surface).
Meshes(s) ==
  {<<i>> : i \in {j \in DOMAIN s : s[j].kind \in {"wall", "window", "floor"}}}
    \cup {<<i, 1>> : i \in {j \in DOMAIN s : s[j].kind = "pivot"}}

\* The results of intersectObjects(scene.children, true): distinct meshes,
\* nearest first.
HitLists(S) ==
  {h \in UNION {[1..n -> S] : n \in 0..MaxHits} :
     \A a, b \in DOMAIN h : a # b => h[a] # h[b]}

Intersections(s) == HitLists(Meshes(s))

\* if (intersects.length === 0) return;
NoHit_NeverReturns(hits) == FALSE

NoHit(hits) == Len(hits) = 0

\* climb up parents to find a doorPivot
Climb_StaysOnHit(s, obj) == obj

RECURSIVE Climb(_, _)
Climb(s, obj) ==
  IF obj # Null /\ Parent(obj) # Null
  THEN IF NameOf(s, Parent(obj)) = "doorPivot"
       THEN Parent(obj)
       ELSE Climb(s, Parent(obj))
  ELSE obj

\* toggle target angle
Toggle_StaleFlag(ud) ==
  [ud EXCEPT !.isOpen = ~ud.isOpen,
             !.targetAngle = IF ud.isOpen THEN ud.openAngle ELSE ud.closedAngle]

Toggle_SwapsAngles(ud) ==
  [ud EXCEPT !.isOpen = ~ud.isOpen,
             !.openAngle = ud.closedAngle,
             !.closedAngle = ud.openAngle,
             !.targetAngle = ud.openAngle]

Toggle(ud) ==
  [ud EXCEPT !.isOpen = ~ud.isOpen,
             !.targetAngle = IF ~ud.isOpen THEN ud.openAngle ELSE ud.closedAngle]

NoEvent == [type |-> "none", intersects |-> << >>, threw |-> FALSE]

\* ------------------------------------------------------------ main.js steps
Init ==
  /\ pc = "fetching"
  /\ bp \in Blueprints
  /\ roomIdx = 1
  /\ scene = << >>
  /\ doorPivots = << >>
  /\ frames = 0
  /\ clicks = 0
  /\ event = NoEvent
  /\ clickableObjects = << >>
  /\ paw = [from |-> <<0, 0>>, to |-> <<0, 0>>, offset |-> 0, outcome |-> "idle",
            point |-> [nan |-> FALSE, x |-> 0, z |-> 0]]

\* fetch(...).then(res => res.json()) fulfils: the load callback is queued
FetchResolve ==
  /\ pc = "fetching"
  /\ pc' = "loaded"
  /\ UNCHANGED <<bp, roomIdx, scene, doorPivots, frames, clicks, event,
                 clickableObjects, paw>>

\* the fetch or the parse fails: catch logs the error, nothing is built
FetchReject ==
  /\ pc = "fetching"
  /\ pc' = "failed"
  /\ UNCHANGED <<bp, roomIdx, scene, doorPivots, frames, clicks, event,
                 clickableObjects, paw>>

\* init(): scene with its two lights, the listeners, and a first call of animate
init ==
  /\ pc = "loaded"
  /\ pc' = "building"
  /\ scene' = animate(<< [kind |-> "light", name |-> ""],
                         [kind |-> "light", name |-> ""] >>, doorPivots)
  /\ frames' = frames + 1
  /\ UNCHANGED <<bp, roomIdx, doorPivots, clicks, event, clickableObjects, paw>>

\* buildFromBlueprint, one room of bp.rooms.forEach
BuildRoom ==
  /\ pc = "building"
  /\ roomIdx <= Len(bp.rooms)
  /\ scene' = scene \o RoomObjects(bp, roomIdx)
  /\ doorPivots' = doorPivots \o PivotsFrom(scene', Len(scene))
  /\ roomIdx' = roomIdx + 1
  /\ UNCHANGED <<pc, bp, frames, clicks, event, clickableObjects, paw>>

\* buildFromBlueprint returns and the load callback ends
BuildDone ==
  /\ pc = "building"
  /\ roomIdx > Len(bp.rooms)
  /\ pc' = "running"
  /\ UNCHANGED <<bp, roomIdx, scene, doorPivots, frames, clicks, event,
                 clickableObjects, paw>>

\* a requestAnimationFrame callback: animate
Tick(limit) ==
  /\ TickReady
  /\ frames < limit
  /\ frames' = frames + 1
  /\ scene' = animate(scene, doorPivots)
  /\ event' = [type |-> "tick", intersects |-> << >>, threw |-> FALSE]
  /\ UNCHANGED <<pc, bp, roomIdx, doorPivots, clicks, clickableObjects, paw>>

\* onClick for a ray whose intersections are hits.  Reading .object of a
\* missing first intersection throws a TypeError, which ends the handler.
onClick(hits) ==
  /\ pc = "running"
  /\ clicks < MaxClicks
  /\ clicks' = clicks + 1
  /\ IF NoHit(hits)
     THEN /\ event' = [type |-> "click", intersects |-> hits, threw |-> FALSE]
          /\ scene' = scene
     ELSE IF Len(hits) = 0
     THEN /\ event' = [type |-> "click", intersects |-> hits, threw |-> TRUE]
          /\ scene' = scene
     ELSE LET obj == Climb(scene, hits[1])
          IN  /\ event' = [type |-> "click", intersects |-> hits, threw |-> FALSE]
              /\ IF obj # Null /\ NameOf(scene, obj) = "doorPivot"
                 THEN scene' = [scene EXCEPT ![obj[1]].userData = Toggle(@)]
                 ELSE scene' = scene
  /\ UNCHANGED <<pc, bp, roomIdx, doorPivots, frames, clickableObjects, paw>>

Click == \E hits \in Intersections(scene) : onClick(hits)

Next ==
  FetchResolve \/ FetchReject \/ init \/ BuildRoom \/ BuildDone \/ Tick(MaxTicks) \/ Click

Spec == Init /\ [][Next]_vars

\* The example blueprint alone, followed for MaxSwingTicks runs of animate.  The
\* display refreshes for as long as the page lives: a scheduled animation frame
\* is eventually run.
SwingInit == Init /\ bp = BpExample

SwingNext ==
  FetchResolve \/ FetchReject \/ init \/ BuildRoom \/ BuildDone \/ Tick(MaxSwingTicks)
    \/ Click

SwingSpec == SwingInit /\ [][SwingNext]_vars /\ WF_vars(Tick(MaxSwingTicks))

\* ------------------------------------------------- properties of src/main.js
Pivots(s) == {i \in DOMAIN s : s[i].kind = "pivot"}

\* the scene length once a blueprint is built, and the child positions there are
BuiltLen(b) ==
  LET n[r \in 0..Len(b.rooms)] ==
        IF r = 0 THEN 2 ELSE n[r - 1] + Len(RoomObjects(b, r))
  IN  n[Len(b.rooms)]

SceneIds ==
  1..(CHOOSE n \in {BuiltLen(b) : b \in Blueprints} :
        \A b \in Blueprints : BuiltLen(b) <= n)

Between(a, lo, hi) == (lo <= a /\ a <= hi) \/ (hi <= a /\ a <= lo)

\* a step that is a run of animate from the frame loop, a step that is a click
IsTick == frames' = frames + 1 /\ pc = "running"

IsClick == clicks' = clicks + 1

\* the tolerance of the convergence check, a tenth of the swing, and the
\* number of lerp steps that bring a full swing within it
Eps == QuarterTurn \div 10

RECURSIVE StepsWithin(_, _)
StepsWithin(d, eps) ==
  IF d <= eps THEN 0 ELSE 1 + StepsWithin(Abs(Lerp(d, 0)), eps)

\* C1 (step part): on every tick, a pivot that has been toggled open and is not
\* yet at openAngle moves strictly closer to openAngle, does not pass it, and
\* stays between closedAngle and openAngle.
C1_TickApproaches ==
  \A i \in Pivots(scene) :
    LET ud == scene[i].userData
        cur == scene[i].rotationY
        new == scene'[i].rotationY
    IN  (IsTick /\ ud.isOpen /\ cur # ud.openAngle)
          => /\ Abs(ud.openAngle - new) < Abs(ud.openAngle - cur)
             /\ Between(new, cur, ud.openAngle)
             /\ Between(new, ud.closedAngle, ud.openAngle)

\* C1 (convergence part): a pivot at closedAngle that has just been toggled open
\* is, unless it is toggled again, eventually within Eps of openAngle (stated
\* for the runs that still have the ticks this takes).
C1_ReachesOpen ==
  \A i \in SceneIds :
    [] ( ( /\ pc = "running"
           /\ i \in Pivots(scene)
           /\ scene[i].userData.isOpen
           /\ scene[i].rotationY = scene[i].userData.closedAngle
           /\ frames + StepsWithin(QuarterTurn, Eps) <= MaxSwingTicks )
         => <> ( /\ i \in Pivots(scene)
                 /\ \/ ~scene[i].userData.isOpen
                    \/ Abs(scene[i].userData.openAngle - scene[i].rotationY) <= Eps ) )

C2_TargetFollowsIsOpen ==
  \A i \in Pivots(scene) :
    LET ud == scene[i].userData
    IN  ud.targetAngle = IF ud.isOpen THEN ud.openAngle ELSE ud.closedAngle

\* C2 witness: one door toggled once (open), another toggled not at all, after ticks.
C2_Witness ==
  /\ frames > 2
  /\ \E i, j \in Pivots(scene) :
       /\ scene[i].userData.isOpen
       /\ scene[i].userData.targetAngle = scene[i].userData.openAngle
       /\ ~scene[j].userData.isOpen
       /\ scene[j].userData.targetAngle = scene[j].userData.closedAngle

\* C3: a click whose nearest hit is the panel of pivot i resolves to pivot i and
\* toggles it and nothing else: isOpen flips, targetAngle follows, and a click
\* on an open pivot restores targetAngle = closedAngle and isOpen = FALSE.
C3_PanelStep ==
  \A i \in Pivots(scene) :
    (IsClick /\ event'.intersects # << >> /\ event'.intersects[1] = <<i, 1>>)
      => /\ Climb(scene, <<i, 1>>) = <<i>>
         /\ scene'[i].userData.isOpen = ~scene[i].userData.isOpen
         /\ scene'[i].userData.targetAngle =
              IF scene[i].userData.isOpen THEN scene[i].userData.closedAngle
                                          ELSE scene[i].userData.openAngle
         /\ \A j \in DOMAIN scene : j # i => scene'[j] = scene[j]

C3_PanelClickTogglesOwnPivot == [][C3_PanelStep]_vars

\* C3 witness: the last click hit the panel of a pivot that is closed again,
\* so that pivot has been toggled twice.
C3_Witness ==
  \E i \in Pivots(scene) :
    /\ event.type = "click"
    /\ event.intersects # << >>
    /\ event.intersects[1] = <<i, 1>>
    /\ clicks = 2
    /\ ~scene[i].userData.isOpen
    /\ scene[i].userData.targetAngle = scene[i].userData.closedAngle
    /\ \A j \in Pivots(scene) : ~scene[j].userData.isOpen

\* C4: a click that hits nothing, or whose nearest hit is not a door panel, walks
\* up to the scene root and changes nothing; no error is raised.
C4_MissStep ==
  (IsClick /\ (event'.intersects = << >> \/ Len(event'.intersects[1]) = 1))
    => /\ scene' = scene
       /\ doorPivots' = doorPivots
       /\ ~event'.threw
       /\ event'.intersects # << >> => Climb(scene, event'.intersects[1]) = << >>

C4_MissIsNoOp == [][C4_MissStep]_vars

\* C4 witness: the last click hit a wall first, with a door open and mid-swing.
C4_Witness ==
  /\ event.type = "click"
  /\ event.intersects # << >>
  /\ Len(event.intersects[1]) = 1
  /\ scene[event.intersects[1][1]].kind = "wall"
  /\ ~event.threw
  /\ \E i \in Pivots(scene) :
       scene[i].userData.isOpen /\ scene[i].rotationY # scene[i].userData.closedAngle

\* number of walls of a blueprint, number of wall meshes of a scene
WallCount(b) ==
  LET n[r \in 0..Len(b.rooms)] ==
        IF r = 0 THEN 0 ELSE n[r - 1] + Len(b.rooms[r].walls)
  IN  n[Len(b.rooms)]

WallMeshes(s) == {i \in DOMAIN s : s[i].kind = "wall"}

\* C5 as claimed: whenever animate has run, buildFromBlueprint has completed.
C5_NoAnimateBeforeBuilt == frames >= 1 => pc = "running"

\* C5 as amended: buildFromBlueprint runs once, uninterrupted; the only run of
\* animate before its completion is the call made by init, before it starts and
\* over an empty doorPivots; every later run comes after its completion.
C5_OnlyInitFrameBeforeBuilt ==
  /\ pc \in {"fetching", "loaded", "failed"} => frames = 0 /\ scene = << >>
  /\ pc = "building" => frames = 1
  /\ frames >= 2 => pc = "running"
  /\ frames <= 1 => \A i \in Pivots(scene) :
                      scene[i].rotationY = scene[i].userData.closedAngle
  /\ pc = "running" => /\ roomIdx = Len(bp.rooms) + 1
                       /\ Cardinality(WallMeshes(scene)) = WallCount(bp)
                       /\ Len(scene) = BuiltLen(bp)

\* C5 witness: a frame-loop tick has run, after the build, on a scene with a door.
C5_Witness == frames >= 2 /\ pc = "running" /\ Pivots(scene) # {}

\* the opening and the wall a scene object was made for
OpeningOf(b, of) == b.rooms[of[1]].walls[of[2]].openings[of[3]]

WallOf(b, of) == b.rooms[of[1]].walls[of[2]]

\* C6 as claimed: once the blueprint is built, an invalid wall has no solid in
\* the scene and every valid wall has one.
C6_InvalidWallSkipped ==
  pc = "running" =>
    \A r \in DOMAIN bp.rooms : \A w \in DOMAIN bp.rooms[r].walls :
      LET solids == {i \in WallMeshes(scene) : scene[i].of = <<r, w>>}
      IN  IF ValidWall(bp, bp.rooms[r].walls[w])
          THEN Cardinality(solids) = 1
          ELSE solids = {}

\* C8 as claimed: the pivot of a door on a valid wall sits at the
\* opening's world position moved by width/2 against the wall direction for a
\* left hinge and along it for hinge = 'right', at height sill + height/2.
C8_HingeBySide ==
  \A i \in Pivots(scene) :
    LET op == OpeningOf(bp, scene[i].of)
        wall == WallOf(bp, scene[i].of)
        dx == wall.to[1] - wall.from[1]
        dz == wall.to[2] - wall.from[2]
        length == Sqrt(dx * dx + dz * dz)
        pos == pointAlongWall(wall.from, wall.to, op.offset)
        side == IF op.hinge = "right" THEN 1 ELSE -1
    IN  ValidWall(bp, wall) =>
          scene[i].position =
            [nan |-> FALSE,
             x |-> pos.x + side * RoundDiv(dx * Half(op.width), length),
             y |-> SillOf(op) + Half(op.height),
             z |-> pos.z + side * RoundDiv(dz * Half(op.width), length)]

\* C9: every door pivot has closedAngle = the rotation of its wall and
\* openAngle = closedAngle + 90 degrees, or - 90 degrees for hinge = 'right'; the
\* door of the example blueprint gets a cavity centred at [2,0] spanning the
\* heights [0,2], closedAngle 0 and openAngle 90 degrees.
C9_DoorAngles ==
  /\ \A i \in Pivots(scene) :
       LET op == OpeningOf(bp, scene[i].of)
           ud == scene[i].userData
       IN  /\ \E j \in WallMeshes(scene) :
                /\ scene[j].of = SubSeq(scene[i].of, 1, 2)
                /\ ud.closedAngle = scene[j].rotationY
           /\ ud.openAngle = ud.closedAngle
                               + (IF op.hinge = "right" THEN -90 ELSE 90) * 125000
  /\ (bp = BpExample /\ pc = "running") =>
       /\ \E j \in WallMeshes(scene) :
            /\ Len(scene[j].cavities) = 1
            /\ LET c == scene[j].cavities[1]
               IN  /\ c.position.nan = FALSE
                   /\ c.position.x = 200 /\ c.position.z = 0
                   /\ c.position.y - Half(c.size[2]) = 0
                   /\ c.position.y + Half(c.size[2]) = 200
       /\ \E i \in Pivots(scene) :
            /\ scene[i].userData.closedAngle = 0
            /\ scene[i].userData.openAngle = 90 * 125000

\* C9 witness: a built scene with a right-hinged door on a rotated wall.
C9_Witness ==
  /\ pc = "running"
  /\ \E i \in Pivots(scene) :
       /\ OpeningOf(bp, scene[i].of).hinge = "right"
       /\ scene[i].userData.closedAngle # 0
       /\ scene[i].userData.openAngle = scene[i].userData.closedAngle - QuarterTurn

\* the panels among the objects a ray passes through, in the ray's order
PanelsOn(hits) == {a \in DOMAIN hits : Len(hits[a]) = 2}

\* C11 as claimed: a click whose ray passes through a door panel toggles the
\* pivot of the nearest such panel, whatever non-interactive object (wall, floor,
\* window) the ray hits before it.
C11_PanelBehindStep ==
  \A i \in Pivots(scene) :
    LET hits == event'.intersects
    IN  ( /\ IsClick
          /\ \E a \in PanelsOn(hits) :
               /\ hits[a] = <<i, 1>>
               /\ \A b \in PanelsOn(hits) : a <= b )
          => /\ scene'[i].userData.isOpen = ~scene[i].userData.isOpen
             /\ scene'[i].userData.targetAngle =
                  IF scene'[i].userData.isOpen THEN scene[i].userData.openAngle
                                               ELSE scene[i].userData.closedAngle

C11_ClickReachesDoorBehind == [][C11_PanelBehindStep]_vars

\* C12 (click part): a click leaves every current angle, closedAngle and
\* openAngle as they are, changes isOpen and targetAngle of the pivot it
\* resolves to and nothing of any other object.
C12_ClickFrame ==
  IsClick =>
    /\ doorPivots' = doorPivots
    /\ DOMAIN scene' = DOMAIN scene
    /\ \A i \in DOMAIN scene :
         IF /\ i \in Pivots(scene)
            /\ event'.intersects # << >>
            /\ Climb(scene, event'.intersects[1]) = <<i>>
         THEN /\ scene'[i].rotationY = scene[i].rotationY
              /\ scene'[i].userData.closedAngle = scene[i].userData.closedAngle
              /\ scene'[i].userData.openAngle = scene[i].userData.openAngle
              /\ scene'[i].userData.isOpen # scene[i].userData.isOpen
              /\ [scene'[i] EXCEPT !.userData = scene[i].userData] = scene[i]
         ELSE scene'[i] = scene[i]

\* C12 (tick part): a tick changes nothing but the current angles of the pivots.
C12_TickFrame ==
  IsTick =>
    /\ doorPivots' = doorPivots
    /\ DOMAIN scene' = DOMAIN scene
    /\ \A i \in DOMAIN scene :
         IF i \in Pivots(scene)
         THEN /\ scene'[i].userData = scene[i].userData
              /\ [scene'[i] EXCEPT !.rotationY = scene[i].rotationY] = scene[i]
         ELSE scene'[i] = scene[i]

\* C12: a click changes only the isOpen and targetAngle of the pivot it toggles
\* (the current angle is not snapped, the other pivots are untouched); a tick
\* changes only current angles.
C12_FrameEffects == [][C12_ClickFrame /\ C12_TickFrame]_vars

\* C12 witness: the last click toggled a pivot that is in mid-swing, in a scene
\* with a second pivot, after ticks that moved it.
C12_Witness ==
  /\ event.type = "click"
  /\ event.intersects # << >>
  /\ \E i, j \in Pivots(scene) :
       /\ i # j
       /\ event.intersects[1] = <<i, 1>>
       /\ scene[i].rotationY # scene[i].userData.closedAngle
       /\ scene[i].rotationY # scene[i].userData.openAngle
       /\ ~scene[i].userData.isOpen

\* ------------------------------------------------ pointAlongWall on its own
PawPoints == {<<0, 0>>, <<300, 0>>, <<0, 400>>, <<300, 400>>}

PawOffsets == {0, 100, 300, 400, 500}

PawInit ==
  /\ pc = "fetching" /\ bp = BpExample /\ roomIdx = 1 /\ scene = << >>
  /\ doorPivots = << >> /\ frames = 0 /\ clicks = 0 /\ event = NoEvent
  /\ clickableObjects = << >>
  /\ paw \in [from : PawPoints, to : PawPoints, offset : PawOffsets,
              outcome : {"idle"}, point : {[nan |-> FALSE, x |-> 0, z |-> 0]}]

\* a call pointAlongWall(from, to, offset): the function has one way out, its
\* return statement
PawCall ==
  /\ paw.outcome = "idle"
  /\ paw' = [paw EXCEPT !.outcome = "returned",
                        !.point = pointAlongWall(paw.from, paw.to, paw.offset)]
  /\ UNCHANGED <<pc, bp, roomIdx, scene, doorPivots, frames, clicks, event,
                 clickableObjects>>

PawNext == PawCall

PawSpec == PawInit /\ [][PawNext]_vars

\* C7 as claimed: a call with from = to fails with InvalidGeometryError; a call
\* with from # to returns the point at distance offset from `from` toward `to`
\* (offset 0 gives from, offset = length gives to).
C7_PointAlongWall ==
  paw.outcome # "idle" =>
    LET dx == paw.to[1] - paw.from[1]
        dz == paw.to[2] - paw.from[2]
        length == Sqrt(dx * dx + dz * dz)
    IN  IF paw.from = paw.to
        THEN paw.outcome = "InvalidGeometryError"
        ELSE /\ paw.outcome = "returned"
             /\ ~paw.point.nan
             /\ (paw.point.x - paw.from[1]) * length = dx * paw.offset
             /\ (paw.point.z - paw.from[2]) * length = dz * paw.offset
             /\ paw.offset = 0 => <<paw.point.x, paw.point.z>> = paw.from
             /\ paw.offset = length => <<paw.point.x, paw.point.z>> = paw.to

\* ------------------------------------------------------ src/unnamed/part_001
\* Blueprints of this variant: walls carry their own height and thickness, doors
\* and windows are listed per room with an absolute position.
Wall001(from, to) == [from |-> from, to |-> to, height |-> 300, thickness |-> 20]

Opening001(at, width, height) == [at |-> at, width |-> width, height |-> height]

\* one wall, one door
Bp001OneWall ==
  [rooms |-> << [floor |-> TRUE,
                 walls |-> << Wall001(<<0, 0>>, <<500, 0>>) >>,
                 doors |-> << Opening001(<<200, 0>>, 100, 200) >>,
                 windows |-> << >>] >>]

\* two walls, one door, one window
Bp001TwoWalls ==
  [rooms |-> << [floor |-> FALSE,
                 walls |-> << Wall001(<<0, 0>>, <<500, 0>>),
                              Wall001(<<0, 0>>, <<0, 500>>) >>,
                 doors |-> << Opening001(<<200, 0>>, 100, 200) >>,
                 windows |-> << Opening001(<<0, 300>>, 100, 100) >>] >>]

\* a room of doors without walls, and a room with one wall and two doors
Bp001NoWall ==
  [rooms |-> << [floor |-> FALSE,
                 walls |-> << >>,
                 doors |-> << Opening001(<<200, 0>>, 100, 200) >>,
                 windows |-> << >>],
                [floor |-> FALSE,
                 walls |-> << Wall001(<<0, 400>>, <<0, 0>>) >>,
                 doors |-> << Opening001(<<0, 100>>, 100, 200),
                              Opening001(<<0, 300>>, 100, 200) >>,
                 windows |-> << >>] >>]

Blueprints001 == {Bp001OneWall, Bp001TwoWalls, Bp001NoWall}

\* createDoor: the mesh pushed to clickableObjects and added to the scene
createDoor(d, wallRotation) ==
  [kind |-> "door", name |-> "",
   position |-> Pos(FALSE, d.at[1], Half(d.height), d.at[2]),
   rotationY |-> wallRotation,
   color |-> "brown",
   userData |-> [type |-> "door", isOpen |-> FALSE]]

\* createWindow
createWindow(win, wallRotation) ==
  [kind |-> "window", name |-> "",
   position |-> Pos(FALSE, win.at[1], Half(win.height), win.at[2]),
   rotationY |-> wallRotation,
   color |-> "skyblue",
   userData |-> [type |-> "window", isOpen |-> FALSE]]

\* createWallWithOpenings of part_001: the final wall mesh, which it adds to the
\* scene itself; its rotation is the wall's, restored from wall.matrix
createWallWithOpenings001(w, openings) ==
  LET dx == w.to[1] - w.from[1]
      dz == w.to[2] - w.from[2]
  IN  [kind |-> "wall", name |-> "",
       position |-> Pos(FALSE, Half(w.from[1] + w.to[1]), Half(w.height),
                        Half(w.from[2] + w.to[2])),
       rotationY |-> Atan2(dz, dx),
       size |-> <<Sqrt(dx * dx + dz * dz), w.height, w.thickness>>,
       cavities |-> [k \in DOMAIN openings |->
                       [position |-> Pos(FALSE, openings[k].at[1],
                                         Half(openings[k].height), openings[k].at[2]),
                        size |-> <<openings[k].width, openings[k].height,
                                   w.thickness + HoleMargin>>,
                        rotationY |-> 0]]]

\* One room of buildFromBlueprint of part_001: the floor, then for every wall the
\* wall cut by all the room's doors and windows, followed by a door mesh for
\* every door of the room and a window mesh for every window of the room.
RoomObjects001(b, r) ==
  LET room == b.rooms[r]
      openings == room.doors \o room.windows
      forWall(w) ==
        LET wall == createWallWithOpenings001(room.walls[w], openings)
        IN  << wall >>
              \o [k \in DOMAIN room.doors |-> createDoor(room.doors[k], wall.rotationY)]
              \o [k \in DOMAIN room.windows |->
                    createWindow(room.windows[k], wall.rotationY)]
      walls[w \in 0..Len(room.walls)] ==
        IF w = 0 THEN << >> ELSE walls[w - 1] \o forWall(w)
  IN  (IF room.floor THEN << createFloor(r) >> ELSE << >>) \o walls[Len(room.walls)]

\* clickableObjects.push, in the order the doors and windows enter the scene
RECURSIVE ClickablesFrom(_, _)
ClickablesFrom(s, lo) ==
  IF lo >= Len(s) THEN << >>
  ELSE (IF s[lo + 1].kind \in {"door", "window"} THEN << lo + 1 >> ELSE << >>)
         \o ClickablesFrom(s, lo + 1)

Init001 ==
  /\ pc = "fetching"
  /\ bp \in Blueprints001
  /\ roomIdx = 1
  /\ scene = << >>
  /\ doorPivots = << >>
  /\ frames = 0
  /\ clicks = 0
  /\ event = NoEvent
  /\ clickableObjects = << >>
  /\ paw = [from |-> <<0, 0>>, to |-> <<0, 0>>, offset |-> 0, outcome |-> "idle",
            point |-> [nan |-> FALSE, x |-> 0, z |-> 0]]

\* init() of part_001; its animate only updates the controls and renders
init001 ==
  /\ pc = "loaded"
  /\ pc' = "building"
  /\ scene' = << [kind |-> "light", name |-> ""], [kind |-> "light", name |-> ""] >>
  /\ frames' = frames + 1
  /\ UNCHANGED <<bp, roomIdx, doorPivots, clicks, event, clickableObjects, paw>>

BuildRoom001 ==
  /\ pc = "building"
  /\ roomIdx <= Len(bp.rooms)
  /\ scene' = scene \o RoomObjects001(bp, roomIdx)
  /\ clickableObjects' = clickableObjects \o ClickablesFrom(scene', Len(scene))
  /\ roomIdx' = roomIdx + 1
  /\ UNCHANGED <<pc, bp, doorPivots, frames, clicks, event, paw>>

Tick001 ==
  /\ TickReady
  /\ frames < MaxTicks
  /\ frames' = frames + 1
  /\ event' = [type |-> "tick", intersects |-> << >>, threw |-> FALSE]
  /\ UNCHANGED <<pc, bp, roomIdx, scene, doorPivots, clicks, clickableObjects, paw>>

\* onClick of part_001: the nearest hit among clickableObjects; a door turns by
\* a quarter turn and flips isOpen, anything else turns red
onClick001(hits) ==
  /\ pc = "running"
  /\ clicks < MaxClicks
  /\ clicks' = clicks + 1
  /\ event' = [type |-> "click", intersects |-> hits, threw |-> FALSE]
  /\ IF Len(hits) > 0
     THEN LET i == hits[1][1]
          IN  IF scene[i].userData.type = "door"
              THEN scene' =
                     [scene EXCEPT
                        ![i].rotationY = @ + (IF scene[i].userData.isOpen
                                              THEN -QuarterTurn ELSE QuarterTurn),
                        ![i].userData.isOpen = ~@]
              ELSE scene' = [scene EXCEPT ![i].color = "red"]
     ELSE scene' = scene
  /\ UNCHANGED <<pc, bp, roomIdx, doorPivots, frames, clickableObjects, paw>>

Click001 ==
  \E hits \in HitLists({<<clickableObjects[j]>> : j \in DOMAIN clickableObjects}) :
    onClick001(hits)

Next001 ==
  FetchResolve \/ FetchReject \/ init001 \/ BuildRoom001 \/ BuildDone \/ Tick001
    \/ Click001

Spec001 == Init001 /\ [][Next001]_vars

\* doors declared by a blueprint of part_001
DoorCount001(b) ==
  LET n[r \in 0..Len(b.rooms)] ==
        IF r = 0 THEN 0 ELSE n[r - 1] + Len(b.rooms[r].doors)
  IN  n[Len(b.rooms)]

\* C10 as claimed: once the blueprint is built, clickableObjects holds exactly one
\* door entry per declared door, however many walls the rooms have.
C10_OneEntryPerDoor ==
  pc = "running" =>
    Cardinality({j \in DOMAIN clickableObjects :
                   scene[clickableObjects[j]].userData.type = "door"})
      = DoorCount001(bp)

====
